---------------------------- MODULE Spec2Model ----------------------------
(***************************************************************************)
(* A state-machine model of the browser client AITodoApp                   *)
(* (static/js/app.js): the live interpretation preview, the three mutation *)
(* operations (add, toggle, delete), the full reload that follows them,    *)
(* the rendered list with its counters, the loading indicator and the      *)
(* alerts.  The 3 second timer that takes an alert away again is left out: *)
(* `alerts` holds every alert shown.                                       *)
(*                                                                         *)
(* Every call of an async method that is suspended on a fetch is one entry *)
(* of `ops`; the entry's pc is the fetch it waits on, and the entry goes   *)
(* when the call returns.  A handler runs from an await to the next await  *)
(* in one action (the event loop never interleaves inside such a stretch). *)
(* The persistence service is a second party: it handles a request in one  *)
(* atomic step, and the answer reaches the client in a later step, so      *)
(* answers arrive in any order.  Strings the code inspects (the input      *)
(* text) are sequences of one-character strings.                           *)
(***************************************************************************)
EXTENDS Integers, Sequences, FiniteSets, TLC

VARIABLES
    server,         \* the persistence service's task collection
    nextId,         \* the id the service gives to the next created task
    tasks,          \* this.tasks
    rendered,       \* children of #tasksContainer written by renderTasks
    stats,          \* the counters written by updateStats
    inputValue,     \* #taskInput.value
    previewHidden,  \* #aiPreview carries the class d-none
    previewText,    \* #aiPreviewText.innerHTML
    loading,        \* #loadingIndicator does not carry the class d-none
    alerts,         \* the alert elements showAlert has appended, oldest first
    ops,            \* the suspended calls of the async methods, by call number
    nextOp,         \* the number of the next call
    sent,           \* the requests sent (and warnings shown) since construction
    lastEvent,      \* the listener that ran last, and whether it returned at once
    answeredPreview, \* the latest call of showAIPreview whose answer has arrived
    loadFailed      \* some loadTasks got no task list

vars == <<server, nextId, tasks, rendered, stats, inputValue, previewHidden,
          previewText, loading, alerts, ops, nextOp, sent, lastEvent,
          answeredPreview, loadFailed>>

\* the page and the store, without the bookkeeping of the calls
page == <<tasks, rendered, stats, inputValue, previewHidden, previewText, loading, alerts>>

-----------------------------------------------------------------------------
(* Bounds of the model.                                                    *)

\* the user starts no further call once this many requests have been sent
\* (or warnings shown) since construction; a call already running goes on
MaxRequests == 2

\* the longest title or original text drawn over the markup alphabet
MaxTextLen == 2

-----------------------------------------------------------------------------
(* Constants of the program.                                               *)

\* the length below which showAIPreview asks for no interpretation
MinPreviewLen == 3

-----------------------------------------------------------------------------
(* Strings.                                                                *)

IsSpace(c) == c = " "

RECURSIVE TrimStart(_)
TrimStart(s) ==
    IF s # <<>> /\ IsSpace(Head(s)) THEN TrimStart(Tail(s)) ELSE s

RECURSIVE TrimEnd(_)
TrimEnd(s) ==
    IF s # <<>> /\ IsSpace(s[Len(s)]) THEN TrimEnd(SubSeq(s, 1, Len(s) - 1)) ELSE s

\* a faulty trim: the text is taken as typed
TrimNone(s) == s

Trim(s) == TrimEnd(TrimStart(s))

\* the texts a user types or an example item carries
Inputs ==
    { <<>>,
      <<" ">>,
      <<"a", "b">>,
      <<" ", " ", " ">>,
      <<" ", "a", "b", "c">> }

\* the texts of the example items of the page
Examples == { <<"a", "<", "b">> }

-----------------------------------------------------------------------------
(* Data.                                                                   *)

\* a task as the persistence service holds and lists it
Task(id, title, date, time, original_text, completed) ==
    [id |-> id, title |-> title, date |-> date, time |-> time,
     original_text |-> original_text, completed |-> completed]

\* the parsed part of an interpretation; "" is an absent date or time, and
\* confidence is in thousandths, 0 when absent
Parsed(title, date, time, confidence) ==
    [title |-> title, date |-> date, time |-> time, confidence |-> confidence]

NoParsed == Parsed(<<>>, "", "", 0)

\* what a fetch followed by response.json() gives: it throws (the fetch is
\* rejected or the body is no JSON), or it is a body, which came with a 2xx
\* status (ok) or with another one
NoResp ==
    [throws |-> FALSE, ok |-> TRUE, success |-> FALSE, hasParsed |-> FALSE,
     parsed |-> NoParsed, error |-> "", hasTasks |-> FALSE, tasks |-> <<>>]

Thrown == [NoResp EXCEPT !.throws = TRUE]

\* the error texts a service puts in a success:false body ("" is none)
ServiceErrors == {"", "service error"}

Failures == {[NoResp EXCEPT !.error = e] : e \in ServiceErrors}

\* the interpretations the service may give for a text
ParsedFor(text) ==
    { Parsed(text, "tomorrow", "", 900) }

\* what response.json() gives: the body, which says nothing of the status
Body(r) == [r EXCEPT !.ok = TRUE]

\* the same bodies under a status that is not 2xx
NonOk(bodies) == {[b EXCEPT !.ok = FALSE] : b \in bodies}

\* the JSON bodies POST /api/parse-task may answer for a text
ParseBodies(text) ==
    Failures
        \cup {[NoResp EXCEPT !.success = TRUE]}
        \cup {[NoResp EXCEPT !.success = TRUE, !.hasParsed = TRUE, !.parsed = p] :
                 p \in ParsedFor(text)}

\* every outcome of POST /api/parse-task for a text
ParseResponses(text) ==
    {Thrown} \cup ParseBodies(text) \cup NonOk(ParseBodies(text))

\* every outcome of a persistence call the service did not carry out
Refusals == {Thrown} \cup Failures \cup NonOk(Failures)

Accepted == [NoResp EXCEPT !.success = TRUE]

\* one suspended call of an async method: the fetch it waits on (pc),
\* whether the service has handled that request (net), the answer the
\* service holds for it (answer), the text or the task id it was called
\* with, the interpretation it received (parse), the requests it has sent
\* (calls), and for loadTasks the method that called it (origin); typed is
\* the content of the input box the text was taken from
Call(kind, pc, text, id, origin, calls) ==
    [kind |-> kind, pc |-> pc, text |-> text, typed |-> text, id |-> id,
     origin |-> origin, calls |-> calls, net |-> "sent", parse |-> NoResp,
     answer |-> NoResp]

\* the answers that may reach the client when the service produced answer a:
\* a itself when the service carried the request out, a refusal otherwise
Answers(a) == IF a.success \/ a.hasTasks THEN {a} ELSE Refusals

-----------------------------------------------------------------------------
(* The pure parts of the client.                                           *)

\* a faulty escapeHtml: the text is embedded as it is
EscapeCharNone(c) == <<c>>

\* escapeHtml: the innerHTML of an element whose textContent is the text
EscapeChar(c) ==
    CASE c = "&" -> <<"&", "a", "m", "p", ";">>
      [] c = "<" -> <<"&", "l", "t", ";">>
      [] c = ">" -> <<"&", "g", "t", ";">>
      [] OTHER   -> <<c>>

RECURSIVE escapeHtml(_)
escapeHtml(text) ==
    IF text = <<>> THEN <<>> ELSE EscapeChar(Head(text)) \o escapeHtml(Tail(text))

\* createTaskHTML: the element of one task, by the values the template
\* embeds; its two buttons are new elements, with no click listener yet
createTaskHTML(task) ==
    [taskId    |-> task.id,
     completed |-> task.completed,
     title     |-> escapeHtml(task.title),
     date      |-> task.date,
     time      |-> task.time,
     original  |-> escapeHtml(task.original_text),
     toggleListeners |-> 0,
     deleteListeners |-> 0]

\* a faulty binding: every button gets its listener twice
addTaskEventListenersTwice(elements) ==
    [k \in DOMAIN elements |->
        [elements[k] EXCEPT !.toggleListeners = @ + 2, !.deleteListeners = @ + 2]]

\* addTaskEventListeners: one more click listener on every toggle button and
\* on every delete button of the document
addTaskEventListeners(elements) ==
    [k \in DOMAIN elements |->
        [elements[k] EXCEPT !.toggleListeners = @ + 1, !.deleteListeners = @ + 1]]

\* renderTasks: the children of the container after its innerHTML is
\* written anew; <<>> is the empty-state element
renderTasks(ts) ==
    IF Len(ts) = 0 THEN <<>>
    ELSE addTaskEventListeners([i \in 1..Len(ts) |-> createTaskHTML(ts[i])])

\* a faulty updateStats: the pending counter shows the total
updateStatsPendingIsTotal(ts) ==
    [taskCount |-> Len(ts), totalTasks |-> Len(ts),
     completedTasks |-> Cardinality({i \in 1..Len(ts) : ts[i].completed}),
     pendingTasks |-> Len(ts)]

\* updateStats: the four counters
updateStats(ts) ==
    LET total     == Len(ts)
        completed == Cardinality({i \in 1..Len(ts) : ts[i].completed})
    IN  [taskCount |-> total, totalTasks |-> total,
         completedTasks |-> completed, pendingTasks |-> total - completed]

\* Math.round(confidence * 100), the confidence in thousandths
ConfidencePercent(confidence) == (confidence * 100 + 500) \div 1000

\* the markup showAIPreview writes: the title, the badges that are present,
\* and the rounded confidence (-1 when none is written)
PreviewHTML(parsed) ==
    [title |-> parsed.title, date |-> parsed.date, time |-> parsed.time,
     confidence |-> IF parsed.confidence # 0
                    THEN ConfidencePercent(parsed.confidence) ELSE -1]

\* a faulty length test: only the empty text is short
TooShortEmptyOnly(text) == text = <<>>

\* the test showAIPreview makes before any request
TooShort(text) == text = <<>> \/ Len(text) < MinPreviewLen

\* a faulty test: every answer is taken for an interpretation
PreviewShowsAlways(r) == TRUE

\* the test showAIPreview makes on the body of the answer
PreviewShows(r) == ~r.throws /\ r.success /\ r.hasParsed

\* showAlert: one more alert element
showAlert(as, message, type) == Append(as, [message |-> message, type |-> type])

\* showLoading: whether the indicator is visible afterwards
showLoading(show) == show

\* the ids on the buttons of the rendered list
ButtonIds == {rendered[i].taskId : i \in DOMAIN rendered}

UserMay == sent < MaxRequests

\* a call starts: it is suspended on its first fetch
Start(os, n, call) == [j \in DOMAIN os \cup {n} |-> IF j = n THEN call ELSE os[j]]

\* the click listeners bound to the button of a kind ("toggle", "delete") of
\* the task element with this id
Listeners(kind, id) ==
    LET e == rendered[CHOOSE k \in DOMAIN rendered : rendered[k].taskId = id]
    IN  IF kind = "toggle" THEN e.toggleListeners ELSE e.deleteListeners

\* a click runs every listener of the button: each starts its own call
Dispatch(os, n, call, count) ==
    [j \in DOMAIN os \cup (n .. (n + count - 1)) |-> IF j \in DOMAIN os THEN os[j] ELSE call]

\* a faulty return: the call sends the request it waited on once more
FinishResending(os, i) == [os EXCEPT ![i].net = "sent"]

\* a call returns
Finish(os, i) == [j \in DOMAIN os \ {i} |-> os[j]]

\* loadTasks up to its fetch: one more call, waiting for GET /api/tasks
loadTasks(os, n, origin) == Start(os, n, Call("load", "list", <<>>, 0, origin, <<"list">>))

\* what a listener leaves in lastEvent
Event(handler, local) == [handler |-> handler, local |-> local]

-----------------------------------------------------------------------------
(* The state after construction: this.tasks is empty, the listeners are    *)
(* bound, and the constructor's loadTasks waits for its answer.  The page  *)
(* shows no preview, no loading indicator and no task element.             *)

\* the collections the service may hold when the page is opened
InitialServers ==
    { <<Task(1, <<"a">>, "", "", <<"a">>, FALSE)>> }

Init ==
    /\ server \in InitialServers
    /\ nextId = Len(server) + 1
    /\ tasks = <<>>
    /\ rendered = <<>>
    /\ stats = updateStats(<<>>)
    /\ inputValue = <<>>
    /\ previewHidden = TRUE
    /\ previewText = PreviewHTML(NoParsed)
    /\ loading = FALSE
    /\ alerts = <<>>
    /\ ops = loadTasks(<<>>, 1, "constructor")
    /\ nextOp = 2
    /\ sent = 0
    /\ lastEvent = Event("DOMContentLoaded", FALSE)
    /\ answeredPreview = 0
    /\ loadFailed = FALSE

-----------------------------------------------------------------------------
(* The live preview.                                                       *)

\* showAIPreview up to its fetch, or to its return when the text is short
showAIPreview(text) ==
    IF TooShort(text)
    THEN /\ previewHidden' = TRUE
         /\ UNCHANGED <<ops, nextOp, sent>>
    ELSE /\ UserMay
         /\ previewHidden' = previewHidden
         /\ ops' = Start(ops, nextOp, Call("preview", "parse", text, 0, "", <<"parse">>))
         /\ nextOp' = nextOp + 1
         /\ sent' = sent + 1

\* the input listener of #taskInput
InputEvent(text) ==
    /\ inputValue' = text
    /\ showAIPreview(text)
    /\ lastEvent' = Event("input", TooShort(text))
    /\ UNCHANGED <<server, nextId, tasks, rendered, stats, previewText, loading, alerts,
                   answeredPreview, loadFailed>>

\* the click listener of an example item
ExampleClick(text) ==
    /\ inputValue' = text
    /\ showAIPreview(text)
    /\ lastEvent' = Event("example", TooShort(text))
    /\ UNCHANGED <<server, nextId, tasks, rendered, stats, previewText, loading, alerts,
                   answeredPreview, loadFailed>>

\* showAIPreview from the answer of its fetch to its end
PreviewAnswer(i, r) ==
    /\ ops[i].kind = "preview" /\ ops[i].pc = "parse"
    /\ r \in ParseResponses(ops[i].text)
    /\ IF PreviewShows(r)
       THEN /\ previewText' = PreviewHTML(r.parsed)
            /\ previewHidden' = FALSE
       ELSE /\ previewText' = previewText
            /\ previewHidden' = TRUE
    /\ ops' = Finish(ops, i)
    /\ answeredPreview' = IF i > answeredPreview THEN i ELSE answeredPreview
    /\ UNCHANGED <<server, nextId, tasks, rendered, stats, inputValue, loading, alerts,
                   nextOp, sent, lastEvent, loadFailed>>

\* the awaited fetch of a call of showAIPreview settles, with any outcome
PreviewReply(i) ==
    /\ ops[i].kind = "preview"
    /\ \E r \in ParseResponses(ops[i].text) : PreviewAnswer(i, r)

-----------------------------------------------------------------------------
(* Create: addTask.                                                        *)

\* a faulty test of the interpretation: success is not looked at
AddParseFailsOnThrowOnly(r) == r.throws

\* the test addTask makes on the answer of the interpretation: the fetch or
\* json() threw, success is false, or parsed is missing (reading its title throws)
AddParseFails(r) == r.throws \/ ~r.success \/ ~r.hasParsed

\* the test addTask makes on the answer of the persistence service
AddSucceeds(r) == ~r.throws /\ r.success

\* error.message in the catch of addTask
ErrorMessage(r, fallback) ==
    IF r.throws THEN "Failed to fetch"
    ELSE IF ~r.success THEN (IF r.error # "" THEN r.error ELSE fallback)
    ELSE "Cannot read properties of undefined"

\* the catch of addTask
addTaskCatch(r, fallback) ==
    showAlert(alerts, <<"Error adding task: ", ErrorMessage(r, fallback)>>, "danger")

\* a faulty addTask: the indicator is hidden at the end of the try block,
\* not in a finally
addTaskFinallyOnSuccessOnly(visible, failed) ==
    IF failed THEN visible ELSE showLoading(FALSE)

\* the finally of addTask; failed tells the path that reached it
addTaskFinally(visible, failed) == showLoading(FALSE)

\* the submit listener of #taskForm: addTask up to its first fetch, or to its
\* return when the trimmed text is empty
Submit ==
    /\ UserMay
    /\ LET text == Trim(inputValue) IN
         IF text = <<>>
         THEN /\ alerts' = showAlert(alerts, <<"Please enter a task">>, "warning")
              /\ loading' = loading
              /\ UNCHANGED <<ops, nextOp>>
              /\ lastEvent' = Event("submit", TRUE)
         ELSE /\ alerts' = alerts
              /\ loading' = showLoading(TRUE)
              /\ ops' = Start(ops, nextOp,
                            [Call("create", "parse", text, 0, "", <<"parse">>)
                                EXCEPT !.typed = inputValue])
              /\ nextOp' = nextOp + 1
              /\ lastEvent' = Event("submit", FALSE)
    /\ sent' = sent + 1
    /\ UNCHANGED <<server, nextId, tasks, rendered, stats, inputValue,
                   previewHidden, previewText, answeredPreview, loadFailed>>

\* addTask from the answer of the interpretation to its second fetch, or to
\* its end through catch and finally
AddParseAnswer(i, r) ==
    /\ ops[i].kind = "create" /\ ops[i].pc = "parse"
    /\ r \in ParseResponses(ops[i].text)
    /\ IF AddParseFails(r)
       THEN /\ ops' = Finish(ops, i)
            /\ sent' = sent
            /\ alerts' = addTaskCatch(r, "Failed to parse task")
            /\ loading' = addTaskFinally(loading, TRUE)
       ELSE /\ ops' = [ops EXCEPT ![i].pc = "add", ![i].parse = Body(r),
                                   ![i].calls = Append(@, "add")]
            /\ sent' = sent + 1
            /\ alerts' = alerts
            /\ loading' = loading
    /\ UNCHANGED <<server, nextId, tasks, rendered, stats, inputValue,
                   previewHidden, previewText, nextOp, lastEvent,
                   answeredPreview, loadFailed>>

\* the first awaited fetch of a call of addTask settles, with any outcome
AddParseReply(i) ==
    /\ ops[i].kind = "create"
    /\ \E r \in ParseResponses(ops[i].text) : AddParseAnswer(i, r)

\* the body of the POST /api/tasks request of a call of addTask
AddRequest(o) ==
    [title |-> o.parse.parsed.title, date |-> o.parse.parsed.date,
     time |-> o.parse.parsed.time, original_text |-> o.text]

\* addTask from the answer of the persistence service to its end
AddAnswer(i, r) ==
    /\ ops[i].kind = "create" /\ ops[i].pc = "add" /\ ops[i].net = "handled"
    /\ r \in Answers(ops[i].answer)
    /\ IF AddSucceeds(r)
       THEN /\ inputValue' = <<>>
            /\ previewHidden' = TRUE
            /\ ops' = loadTasks(Finish(ops, i), nextOp, "addTask")
            /\ nextOp' = nextOp + 1
            /\ sent' = sent + 1
            /\ alerts' = showAlert(alerts, <<"Task added successfully!">>, "success")
            /\ loading' = addTaskFinally(loading, FALSE)
       ELSE /\ inputValue' = inputValue
            /\ previewHidden' = previewHidden
            /\ ops' = Finish(ops, i)
            /\ UNCHANGED <<nextOp, sent>>
            /\ alerts' = addTaskCatch(r, "Failed to add task")
            /\ loading' = addTaskFinally(loading, TRUE)
    /\ UNCHANGED <<server, nextId, tasks, rendered, stats, previewText,
                   lastEvent, answeredPreview, loadFailed>>

\* the second awaited fetch of a call of addTask settles
AddReply(i) ==
    /\ ops[i].kind = "create"
    /\ \E r \in Answers(ops[i].answer) : AddAnswer(i, r)

-----------------------------------------------------------------------------
(* Reload: loadTasks.                                                      *)

\* a faulty assignment: the listed tasks are added to the store
ReplaceTasksAppending(old, listed) == old \o listed

\* this.tasks = data.tasks: the store after the assignment
ReplaceTasks(old, listed) == listed

\* loadTasks from the answer of its fetch to its end
LoadAnswer(i, r) ==
    /\ ops[i].kind = "load" /\ ops[i].pc = "list" /\ ops[i].net = "handled"
    /\ r \in Answers(ops[i].answer)
    /\ IF r.throws
       THEN /\ alerts' = showAlert(alerts, <<"Error loading tasks">>, "danger")
            /\ UNCHANGED <<tasks, rendered, stats>>
       ELSE IF r.hasTasks
       THEN /\ tasks' = ReplaceTasks(tasks, r.tasks)
            /\ rendered' = renderTasks(tasks')
            /\ stats' = updateStats(tasks')
            /\ alerts' = alerts
       ELSE UNCHANGED <<tasks, rendered, stats, alerts>>
    /\ loadFailed' = (loadFailed \/ r.throws \/ ~r.hasTasks)
    /\ ops' = Finish(ops, i)
    /\ UNCHANGED <<server, nextId, inputValue, previewHidden, previewText, loading,
                   nextOp, sent, lastEvent, answeredPreview>>

\* the awaited fetch of a call of loadTasks settles
LoadReply(i) ==
    /\ ops[i].kind = "load"
    /\ \E r \in Answers(ops[i].answer) : LoadAnswer(i, r)

-----------------------------------------------------------------------------
(* Toggle and Delete.                                                      *)

\* a faulty toggleTask: it reloads whatever the answer
ToggleSucceedsAlways(r) == TRUE

\* the test toggleTask makes on the answer of the persistence service
ToggleSucceeds(r) == ~r.throws /\ r.success

\* the test deleteTask makes on the answer of the persistence service
DeleteSucceeds(r) == ~r.throws /\ r.success

\* the click listener of a toggle button: toggleTask up to its fetch
ToggleClick(id) ==
    /\ UserMay
    /\ id \in ButtonIds
    /\ ops' = Dispatch(ops, nextOp, Call("toggle", "toggle", <<>>, id, "", <<"toggle">>),
                       Listeners("toggle", id))
    /\ nextOp' = nextOp + Listeners("toggle", id)
    /\ sent' = sent + Listeners("toggle", id)
    /\ lastEvent' = Event("toggle", FALSE)
    /\ UNCHANGED <<server, nextId, tasks, rendered, stats, inputValue,
                   previewHidden, previewText, loading, alerts, answeredPreview,
                   loadFailed>>

\* toggleTask from the answer of its fetch to its end
ToggleAnswer(i, r) ==
    /\ ops[i].kind = "toggle" /\ ops[i].pc = "toggle" /\ ops[i].net = "handled"
    /\ r \in Answers(ops[i].answer)
    /\ IF ToggleSucceeds(r)
       THEN /\ ops' = loadTasks(Finish(ops, i), nextOp, "toggleTask")
            /\ nextOp' = nextOp + 1
            /\ sent' = sent + 1
            /\ alerts' = alerts
       ELSE /\ ops' = Finish(ops, i)
            /\ UNCHANGED <<nextOp, sent>>
            /\ alerts' = showAlert(alerts, <<"Error updating task">>, "danger")
    /\ UNCHANGED <<server, nextId, tasks, rendered, stats, inputValue,
                   previewHidden, previewText, loading, lastEvent,
                   answeredPreview, loadFailed>>

\* the awaited fetch of a call of toggleTask settles
ToggleReply(i) ==
    /\ ops[i].kind = "toggle"
    /\ \E r \in Answers(ops[i].answer) : ToggleAnswer(i, r)

\* a faulty listener: the answer of confirm() is not looked at
ConfirmedAlways(answer) == TRUE

\* whether the listener goes on after confirm() gave this answer
Confirmed(answer) == answer

\* the click listener of a delete button: the confirmation, then deleteTask
\* up to its fetch
DeleteClick(id, answer) ==
    /\ id \in ButtonIds
    /\ IF Confirmed(answer)
       THEN /\ UserMay
            /\ ops' = Dispatch(ops, nextOp, Call("delete", "delete", <<>>, id, "", <<"delete">>),
                               Listeners("delete", id))
            /\ nextOp' = nextOp + Listeners("delete", id)
            /\ sent' = sent + Listeners("delete", id)
       ELSE UNCHANGED <<ops, nextOp, sent>>
    /\ lastEvent' = Event("delete", ~answer)
    /\ UNCHANGED <<server, nextId, tasks, rendered, stats, inputValue,
                   previewHidden, previewText, loading, alerts, answeredPreview,
                   loadFailed>>

\* deleteTask from the answer of its fetch to its end
DeleteAnswer(i, r) ==
    /\ ops[i].kind = "delete" /\ ops[i].pc = "delete" /\ ops[i].net = "handled"
    /\ r \in Answers(ops[i].answer)
    /\ IF DeleteSucceeds(r)
       THEN /\ ops' = loadTasks(Finish(ops, i), nextOp, "deleteTask")
            /\ nextOp' = nextOp + 1
            /\ sent' = sent + 1
            /\ alerts' = showAlert(alerts, <<"Task deleted successfully!">>, "success")
       ELSE /\ ops' = Finish(ops, i)
            /\ UNCHANGED <<nextOp, sent>>
            /\ alerts' = showAlert(alerts, <<"Error deleting task">>, "danger")
    /\ UNCHANGED <<server, nextId, tasks, rendered, stats, inputValue,
                   previewHidden, previewText, loading, lastEvent,
                   answeredPreview, loadFailed>>

\* the awaited fetch of a call of deleteTask settles
DeleteReply(i) ==
    /\ ops[i].kind = "delete"
    /\ \E r \in Answers(ops[i].answer) : DeleteAnswer(i, r)

-----------------------------------------------------------------------------
(* The persistence service: it handles one request in one atomic step; it  *)
(* carries the request out and answers success, or it changes nothing and  *)
(* the client gets a refusal.                                              *)

Waiting(i, pc) == ops[i].pc = pc /\ ops[i].net = "sent"

Handled(i, a) == [ops EXCEPT ![i].net = "handled", ![i].answer = a]

Refuse(i) ==
    /\ ops' = Handled(i, NoResp)
    /\ UNCHANGED <<server, nextId>>

HasTask(id) == \E k \in DOMAIN server : server[k].id = id

\* POST /api/tasks
ServerCreate(i) ==
    /\ Waiting(i, "add")
    /\ \/ /\ server' = Append(server,
                 LET q == AddRequest(ops[i])
                 IN  Task(nextId, q.title, q.date, q.time, q.original_text, FALSE))
          /\ nextId' = nextId + 1
          /\ ops' = Handled(i, Accepted)
       \/ Refuse(i)
    /\ UNCHANGED <<page, nextOp, sent, lastEvent, answeredPreview, loadFailed>>

\* POST /api/tasks/{id}/toggle
ServerToggle(i) ==
    /\ Waiting(i, "toggle")
    /\ \/ /\ HasTask(ops[i].id)
          /\ server' = [k \in DOMAIN server |->
                          IF server[k].id = ops[i].id
                          THEN [server[k] EXCEPT !.completed = ~@] ELSE server[k]]
          /\ ops' = Handled(i, Accepted)
          /\ UNCHANGED nextId
       \/ Refuse(i)
    /\ UNCHANGED <<page, nextOp, sent, lastEvent, answeredPreview, loadFailed>>

\* DELETE /api/tasks/{id}
ServerDelete(i) ==
    /\ Waiting(i, "delete")
    /\ \/ /\ HasTask(ops[i].id)
          /\ server' = SelectSeq(server, LAMBDA t : t.id # ops[i].id)
          /\ ops' = Handled(i, Accepted)
          /\ UNCHANGED nextId
       \/ Refuse(i)
    /\ UNCHANGED <<page, nextOp, sent, lastEvent, answeredPreview, loadFailed>>

\* GET /api/tasks
ServerList(i) ==
    /\ Waiting(i, "list")
    /\ \/ /\ ops' = Handled(i, [NoResp EXCEPT !.hasTasks = TRUE, !.tasks = server])
          /\ UNCHANGED <<server, nextId>>
       \/ Refuse(i)
    /\ UNCHANGED <<page, nextOp, sent, lastEvent, answeredPreview, loadFailed>>

-----------------------------------------------------------------------------
(* The specification.                                                      *)

Next ==
    \/ \E text \in Inputs : InputEvent(text)
    \/ \E text \in Examples : ExampleClick(text)
    \/ Submit
    \/ \E id \in ButtonIds : ToggleClick(id)
    \/ \E id \in ButtonIds : \E answer \in BOOLEAN : DeleteClick(id, answer)
    \/ \E i \in DOMAIN ops : PreviewReply(i)
    \/ \E i \in DOMAIN ops : AddParseReply(i)
    \/ \E i \in DOMAIN ops : AddReply(i)
    \/ \E i \in DOMAIN ops : LoadReply(i)
    \/ \E i \in DOMAIN ops : ToggleReply(i)
    \/ \E i \in DOMAIN ops : DeleteReply(i)
    \/ \E i \in DOMAIN ops : ServerCreate(i)
    \/ \E i \in DOMAIN ops : ServerToggle(i)
    \/ \E i \in DOMAIN ops : ServerDelete(i)
    \/ \E i \in DOMAIN ops : ServerList(i)

Spec == Init /\ [][Next]_vars

\* the steps in which a request is handled or an awaited fetch settles
Settle ==
    \E i \in DOMAIN ops :
        \/ PreviewReply(i) \/ AddParseReply(i) \/ AddReply(i)
        \/ LoadReply(i) \/ ToggleReply(i) \/ DeleteReply(i)
        \/ ServerCreate(i) \/ ServerToggle(i) \/ ServerDelete(i) \/ ServerList(i)

\* every request is handled and every awaited fetch settles
FairSpec == Spec /\ WF_vars(Settle)

-----------------------------------------------------------------------------
(* Rendering alone: the page is opened on a service that holds one task    *)
(* whose title and original text are drawn over the characters that mean   *)
(* something in markup, and the constructor's loadTasks renders it.        *)

MarkupChars == {"a", "<", ">", "&"}

\* the texts over the markup alphabet, and the text of an entity
MarkupTexts ==
    UNION {[1..n -> MarkupChars] : n \in 0..MaxTextLen} \cup {<<"&", "l", "t", ";">>}

EscapeServers ==
    { <<Task(1, title, "", "", original, FALSE)>> :
          title \in MarkupTexts, original \in MarkupTexts }

EscapeInit ==
    /\ server \in EscapeServers
    /\ nextId = Len(server) + 1
    /\ tasks = <<>>
    /\ rendered = <<>>
    /\ stats = updateStats(<<>>)
    /\ inputValue = <<>>
    /\ previewHidden = TRUE
    /\ previewText = PreviewHTML(NoParsed)
    /\ loading = FALSE
    /\ alerts = <<>>
    /\ ops = loadTasks(<<>>, 1, "constructor")
    /\ nextOp = 2
    /\ sent = 0
    /\ lastEvent = Event("DOMContentLoaded", FALSE)
    /\ answeredPreview = 0
    /\ loadFailed = FALSE

EscapeNext ==
    \/ \E i \in DOMAIN ops : ServerList(i)
    \/ \E i \in DOMAIN ops : LoadReply(i)

EscapeSpec == EscapeInit /\ [][EscapeNext]_vars

-----------------------------------------------------------------------------
(* Properties.                                                             *)

\* a text of whitespace only (the empty text included)
IsBlank(s) == \A k \in DOMAIN s : s[k] = " "

\* call i returns in this step
Returns(i) == i \in DOMAIN ops /\ i \notin DOMAIN ops'

\* a loadTasks starts in this step
ReloadStarts == \E n \in DOMAIN ops' \ DOMAIN ops : ops'[n].kind = "load"

\* some alert carries this message
Alerted(message) == \E k \in DOMAIN alerts : alerts[k].message = message

\* C1: only the answer to the most recently issued preview request may change
\* the preview: an answer that arrives after the answer to a later request
\* (A's after B's) leaves the shown preview as it is.
C1_StalePreviewAnswerIsDropped ==
    [][\A i \in DOMAIN ops :
          (PreviewReply(i) /\ i < answeredPreview)
              => UNCHANGED <<previewHidden, previewText>>]_vars

\* C2: whenever no mutation and no reload is in flight, and every reload got
\* a task list, the Task Store and the rendered list equal the collection of
\* the service.
C2_QuiescentStoreEqualsServer ==
    ((\A i \in DOMAIN ops : ops[i].kind = "preview") /\ ~loadFailed)
        => (tasks = server /\ rendered = renderTasks(server))

\* a call of addTask has sent each of its requests at most once, and the
\* create request only after its interpretation arrived with success; the
\* service persists for it only once that request is sent
CreateCallInv(o) ==
    /\ o.calls \in {<<"parse">>, <<"parse", "add">>}
    /\ (o.pc = "add") = (o.calls = <<"parse", "add">>)
    /\ o.pc = "add" => (~o.parse.throws /\ o.parse.success /\ o.parse.hasParsed)
    /\ o.pc = "parse" => (o.net = "sent" /\ ~o.answer.success)

\* C3: a Create sends the create request at most once and only after its own
\* interpretation answered with success; every task the service gains is
\* the one task of one such request, a Create that ends with the success
\* notice has gained exactly that one task, and a Create that ends in failure
\* (at the interpretation or at the persistence step) has gained none.
C3_CreateAtomicity ==
    /\ [](\A i \in DOMAIN ops : ops[i].kind = "create" => CreateCallInv(ops[i]))
    /\ [][/\ Len(server') > Len(server) =>
               /\ Len(server') = Len(server) + 1
               /\ \E i \in DOMAIN ops :
                    /\ ops[i].kind = "create" /\ ops[i].calls = <<"parse", "add">>
                    /\ ops[i].net = "sent" /\ ops'[i].net = "handled"
                    /\ ~ops[i].answer.success /\ ops'[i].answer.success
          /\ \A i \in DOMAIN ops :
               (ops[i].kind = "create" /\ Returns(i)) =>
                   /\ server' = server
                   /\ Len(alerts') = Len(alerts) + 1
                   /\ (alerts'[Len(alerts')].type = "success") = ops[i].answer.success
                   /\ alerts'[Len(alerts')].type \in {"success", "danger"}
                   /\ ReloadStarts = ops[i].answer.success]_vars

\* C3 happens: one Create failed and another succeeded, and the service holds
\* exactly one task more than when the page was opened
C3_Witness ==
    /\ \E k \in DOMAIN alerts : alerts[k].message = <<"Task added successfully!">>
    /\ \E k \in DOMAIN alerts : alerts[k].message[1] = "Error adding task: "
    /\ \A i \in DOMAIN ops : ops[i].kind # "create"
    /\ Len(server) = 2 /\ nextId = 3

\* C4: a Create with empty or whitespace-only text sends no request, leaves
\* the service, the Task Store, the rendered list and the loading indicator
\* as they are, and shows one warning.
C4_BlankCreateIsLocal ==
    [][(Submit /\ IsBlank(inputValue)) =>
          /\ UNCHANGED <<server, nextId, tasks, rendered, stats, loading, ops, nextOp>>
          /\ Len(alerts') = Len(alerts) + 1
          /\ SubSeq(alerts', 1, Len(alerts)) = alerts
          /\ alerts'[Len(alerts')].type = "warning"]_vars

\* C4 happens: whitespace was typed and submitted
C4_Witness ==
    /\ lastEvent = Event("submit", TRUE)
    /\ inputValue # <<>> /\ IsBlank(inputValue)
    /\ alerts # <<>> /\ alerts[Len(alerts)].type = "warning"

\* C5: the Task Store and the rendered list change only in the step that
\* applies the task list of a reload; the steps of Toggle and Delete leave
\* them as they are, and start a reload exactly when the service carried the
\* request out and answered success.
C5_ListChangesOnlyByReload ==
    [][/\ (tasks' # tasks \/ rendered' # rendered) =>
             \E i \in DOMAIN ops :
                 /\ ops[i].kind = "load" /\ Returns(i)
                 /\ ops[i].answer.hasTasks
                 /\ tasks' = ops[i].answer.tasks
                 /\ rendered' = renderTasks(tasks')
       /\ \A i \in DOMAIN ops :
             (ops[i].kind \in {"toggle", "delete"} /\ Returns(i)) =>
                 /\ UNCHANGED <<tasks, rendered, stats>>
                 /\ ReloadStarts = ops[i].answer.success
       /\ (\E n \in DOMAIN ops' \ DOMAIN ops : ops'[n].kind \in {"toggle", "delete"}) =>
             /\ UNCHANGED <<tasks, rendered, stats>>
             /\ ~ReloadStarts]_vars

\* C5 happens: a Toggle and a Delete have failed under a displayed list
C5_Witness ==
    /\ Alerted(<<"Error updating task">>)
    /\ Alerted(<<"Error deleting task">>)
    /\ rendered # <<>>
    /\ DOMAIN ops = {}

\* C6: an input event (typed or by an example item) whose text is empty or
\* shorter than 3 characters sends no request and leaves the preview hidden.
C6_ShortInputSendsNothing ==
    [][\A text \in Inputs \cup Examples :
          ((InputEvent(text) \/ ExampleClick(text)) /\ Len(text) < 3) =>
              /\ previewHidden'
              /\ UNCHANGED <<ops, nextOp, server, nextId>>]_vars

\* C6 happens: a preview had been written, and a short text has hidden it
C6_Witness ==
    /\ lastEvent = Event("input", TRUE)
    /\ Len(inputValue) \in 1..2
    /\ previewText # PreviewHTML(NoParsed)
    /\ previewHidden

\* C7: a click on a delete button that the user does not confirm sends no
\* request and changes neither the service, the Task Store, the rendered
\* list nor the alerts.
C7_DeclinedDeleteDoesNothing ==
    [][\A id \in ButtonIds :
          DeleteClick(id, FALSE) =>
              UNCHANGED <<server, nextId, tasks, rendered, stats, inputValue,
                          previewHidden, previewText, loading, alerts, ops, nextOp>>]_vars

\* C7 happens: the delete of a displayed task was declined
C7_Witness ==
    /\ lastEvent = Event("delete", TRUE)
    /\ rendered # <<>>
    /\ tasks = server

\* C8: while a Create, a Toggle or a Delete runs, the reload it started
\* included, the loading indicator is visible.
C8_BusyForFullDuration ==
    (\E i \in DOMAIN ops :
        \/ ops[i].kind \in {"create", "toggle", "delete"}
        \/ ops[i].kind = "load" /\ ops[i].origin \in {"addTask", "toggleTask", "deleteTask"})
        => loading

\* C9: while some operation that engaged the loading indicator (a Create) has
\* not finished, the indicator is visible.
C9_BusyWhileAnyCreateRuns ==
    (\E i \in DOMAIN ops : ops[i].kind = "create") => loading

\* C10: addTask hides the loading indicator on every path by which it
\* returns, so the indicator is hidden whenever no call is in flight, and
\* when every fetch settles a visible indicator is eventually hidden.
C10_NoStuckBusy ==
    /\ [](DOMAIN ops = {} => ~loading)
    /\ [][\A i \in DOMAIN ops :
             (ops[i].kind = "create" /\ Returns(i)) => ~loading']_vars
    /\ (loading ~> ~loading)

\* C10 happens: Creates have ended by each failure path and by success, and
\* the indicator is hidden
C10_Witness ==
    /\ \E k \in DOMAIN alerts : alerts[k].message = <<"Task added successfully!">>
    /\ \E k \in DOMAIN alerts : alerts[k].message[1] = "Error adding task: "
    /\ DOMAIN ops = {}
    /\ ~loading

\* the last alert is a danger alert that this step has added
DangerAlertAdded ==
    /\ Len(alerts') = Len(alerts) + 1
    /\ alerts'[Len(alerts')].type = "danger"

\* C11: an answer whose status is not 2xx is handled as a success:false
\* answer, whatever its body: the preview is hidden, a Create ends with an
\* error before the persistence service is called (or reports the add as
\* failed), and a Toggle or a Delete starts no reload.
C11_NonOkStatusIsFailure ==
    [][\A i \in DOMAIN ops :
          \A r \in ParseResponses(ops[i].text) \cup Refusals :
              ~r.ok =>
                  /\ PreviewAnswer(i, r) => previewHidden'
                  /\ AddParseAnswer(i, r) => (Returns(i) /\ DangerAlertAdded)
                  /\ AddAnswer(i, r) => (Returns(i) /\ DangerAlertAdded /\ ~ReloadStarts)
                  /\ ToggleAnswer(i, r) => (Returns(i) /\ ~ReloadStarts)
                  /\ DeleteAnswer(i, r) => (Returns(i) /\ ~ReloadStarts)]_vars

\* C12: the create request of a Create carries the title, the date and the
\* time of the interpretation that same call of addTask received, and an
\* original_text equal to the content of the input box as it was submitted,
\* character for character.
C12_CreateRequestCarriesVerbatimInput ==
    [][\A i \in DOMAIN ops :
          \A r \in ParseResponses(ops[i].text) :
              (AddParseAnswer(i, r) /\ ~Returns(i)) =>
                  LET q == AddRequest(ops'[i])
                  IN  /\ q.title = r.parsed.title
                      /\ q.date = r.parsed.date
                      /\ q.time = r.parsed.time
                      /\ q.original_text = ops[i].typed]_vars

\* a preview request that failed: the fetch or json() threw, the body says
\* success:false, or it carries no interpretation
PreviewFailed(r) == r.throws \/ ~r.success \/ ~r.hasParsed

\* C13: a failed preview request hides the preview, and no step of
\* showAIPreview (its start by an input event or an example item, its
\* continuation on any answer) adds an alert.
C13_PreviewFailureIsSilent ==
    [][/\ \A i \in DOMAIN ops :
             \A r \in ParseResponses(ops[i].text) :
                 PreviewAnswer(i, r) =>
                     /\ alerts' = alerts
                     /\ PreviewFailed(r) => previewHidden'
       /\ \A text \in Inputs \cup Examples :
             (InputEvent(text) \/ ExampleClick(text)) => alerts' = alerts]_vars

\* C13 happens: a preview was shown for an earlier text, and the failed
\* request for the text now in the input box has hidden it, without an alert
C13_Witness ==
    /\ lastEvent \in {Event("input", FALSE), Event("example", FALSE)}
    /\ ~TooShort(inputValue)
    /\ \A i \in DOMAIN ops : ops[i].kind # "preview"
    /\ answeredPreview = nextOp - 1
    /\ previewText # PreviewHTML(NoParsed)
    /\ previewHidden
    /\ alerts = <<>>

\* the alert this step has added is a danger alert, and its message carries
\* the error text of the answer when the answer is a body with one
ServiceMessageShown(r) ==
    /\ DangerAlertAdded
    /\ (~r.throws /\ r.error # "") =>
           \E k \in DOMAIN alerts'[Len(alerts')].message :
               alerts'[Len(alerts')].message[k] = r.error

\* C14: when the persistence call of a Create, a Toggle or a Delete fails,
\* a danger alert is shown, and its message is the error message of the
\* service whenever the answer carries one.
C14_ServiceMessageIsSurfaced ==
    [][\A i \in DOMAIN ops :
          \A r \in Refusals :
              /\ AddAnswer(i, r) => ServiceMessageShown(r)
              /\ ToggleAnswer(i, r) => ServiceMessageShown(r)
              /\ DeleteAnswer(i, r) => ServiceMessageShown(r)]_vars

\* C15: the displayed total is the sum of the displayed completed and
\* pending counters; the total is the number of tasks in the Task Store and
\* completed the number of them that are completed; and the rendered list
\* shows the tasks of that same store, one element each, in order.
C15_CountersMatchStore ==
    /\ stats.totalTasks = stats.completedTasks + stats.pendingTasks
    /\ stats.totalTasks = Len(tasks)
    /\ stats.taskCount = Len(tasks)
    /\ stats.completedTasks = Cardinality({k \in DOMAIN tasks : tasks[k].completed})
    /\ Len(rendered) = Len(tasks)
    /\ \A k \in DOMAIN tasks :
          /\ rendered[k].taskId = tasks[k].id
          /\ rendered[k].completed = tasks[k].completed

\* C15 happens: reloads have been applied, the last one after a Create and a
\* Toggle, and the store holds a completed and a pending task
C15_Witness ==
    /\ Len(tasks) = 2
    /\ stats.completedTasks = 1
    /\ stats.pendingTasks = 1
    /\ DOMAIN ops = {}

\* the requests a call of each method may have sent, in order
AllowedCalls(kind) ==
    CASE kind = "preview" -> {<<"parse">>}
      [] kind = "create"  -> {<<"parse">>, <<"parse", "add">>}
      [] kind = "toggle"  -> {<<"toggle">>}
      [] kind = "delete"  -> {<<"delete">>}
      [] kind = "load"    -> {<<"list">>}

\* the listener that starts a call of each method
StartedBy(kind) ==
    CASE kind = "preview" -> {"input", "example"}
      [] kind = "create"  -> {"submit"}
      [] kind = "toggle"  -> {"toggle"}
      [] kind = "delete"  -> {"delete"}
      [] kind = "load"    -> {}

\* the method whose success starts a reload with this origin
ReloadOf(kind) ==
    CASE kind = "create" -> "addTask"
      [] kind = "toggle" -> "toggleTask"
      [] kind = "delete" -> "deleteTask"

\* C16: no request is sent twice.  A call has sent each of its requests at
\* most once and waits on the last of them; a request the service has
\* handled is not sent again; a call other than a reload starts only in the
\* listener of a user action, one call per action; a reload starts only as
\* the one reload of a Create, Toggle or Delete that returns with success;
\* and a Create, Toggle or Delete that returns in failure, like a reload that
\* returns, sends nothing more.
C16_NoAutomaticRetry ==
    /\ [](\A i \in DOMAIN ops :
             /\ ops[i].calls \in AllowedCalls(ops[i].kind)
             /\ ops[i].pc = ops[i].calls[Len(ops[i].calls)])
    /\ [][/\ \A i \in DOMAIN ops \cap DOMAIN ops' :
               /\ \/ ops'[i].calls = ops[i].calls
                  \/ /\ ops'[i].calls = Append(ops[i].calls, ops'[i].pc)
                     /\ \A k \in DOMAIN ops[i].calls : ops[i].calls[k] # ops'[i].pc
               /\ (ops'[i].calls = ops[i].calls /\ ops[i].net = "handled")
                     => ops'[i].net = "handled"
          /\ Cardinality(DOMAIN ops' \ DOMAIN ops) <= 1
          /\ \A n \in DOMAIN ops' \ DOMAIN ops :
               IF ops'[n].kind = "load"
               THEN \E i \in DOMAIN ops :
                        /\ Returns(i)
                        /\ ops[i].kind \in {"create", "toggle", "delete"}
                        /\ ops[i].answer.success
                        /\ ops'[n].origin = ReloadOf(ops[i].kind)
               ELSE /\ lastEvent'.handler \in StartedBy(ops'[n].kind)
                    /\ \A i \in DOMAIN ops : i \in DOMAIN ops' /\ ops'[i] = ops[i]
          /\ \A i \in DOMAIN ops :
               (Returns(i) /\ (ops[i].kind = "load" \/ ~ops[i].answer.success))
                   => /\ DOMAIN ops' = DOMAIN ops \ {i}
                      /\ \A j \in DOMAIN ops' : ops'[j] = ops[j]]_vars

\* C16 happens: a Toggle and a Create have failed and nothing is in flight;
\* besides the constructor's loadTasks, only their two calls were started
C16_Witness ==
    /\ Alerted(<<"Error updating task">>)
    /\ \E k \in DOMAIN alerts : alerts[k].message[1] = "Error adding task: "
    /\ DOMAIN ops = {}
    /\ nextOp = 4

StartsWith(m, prefix) ==
    Len(m) >= Len(prefix) /\ SubSeq(m, 1, Len(prefix)) = prefix

\* the text a browser displays for a piece of markup without tags: every
\* character reference stands for its character
RECURSIVE Displayed(_)
Displayed(m) ==
    IF m = <<>> THEN <<>>
    ELSE IF StartsWith(m, <<"&", "a", "m", "p", ";">>)
         THEN <<"&">> \o Displayed(SubSeq(m, 6, Len(m)))
    ELSE IF StartsWith(m, <<"&", "l", "t", ";">>)
         THEN <<"<">> \o Displayed(SubSeq(m, 5, Len(m)))
    ELSE IF StartsWith(m, <<"&", "g", "t", ";">>)
         THEN <<">">> \o Displayed(SubSeq(m, 5, Len(m)))
    ELSE <<Head(m)>> \o Displayed(Tail(m))

\* the markup opens or closes no tag, and is displayed as the text
LiteralText(m, text) ==
    /\ \A j \in DOMAIN m : m[j] \notin {"<", ">"}
    /\ Displayed(m) = text

\* C17: the title and the original text of every task are embedded in the
\* rendered list in escaped form: what is embedded contains no < and no >,
\* and is displayed as the very text of the task.
C17_MarkupIsEscaped ==
    /\ Len(rendered) = Len(tasks)
    /\ \A k \in DOMAIN rendered :
          /\ LiteralText(rendered[k].title, tasks[k].title)
          /\ LiteralText(rendered[k].original, tasks[k].original_text)

\* C17 happens: a task whose title is a tag and whose original text reads
\* like a character reference is rendered
C17_Witness ==
    /\ Len(rendered) = 1
    /\ tasks[1].title = <<"<", ">">>
    /\ tasks[1].original_text = <<"&", "l", "t", ";">>
    /\ rendered[1].title = <<"&", "l", "t", ";", "&", "g", "t", ";">>

\* C18: the preview is never visible while the content of the input box is
\* empty or shorter than 3 characters; an answer to a preview request that
\* was sent earlier does not show it again.
C18_NoPreviewForShortInput ==
    TooShort(inputValue) => previewHidden

\* C19: the Task Store is empty at first, and it changes only in the step
\* in which a reload applies the task list of its answer, to exactly that
\* list; a reload whose answer is an error or carries no task list leaves
\* the store as it is, and so does every step of every other operation.
C19_StoreIsReplacedWhole ==
    /\ tasks = <<>>
    /\ [][/\ tasks' # tasks =>
                \E i \in DOMAIN ops :
                    /\ ops[i].kind = "load" /\ Returns(i)
                    /\ ops[i].answer.hasTasks
                    /\ tasks' = ops[i].answer.tasks
          /\ \A i \in DOMAIN ops :
                \A r \in Refusals : LoadAnswer(i, r) => tasks' = tasks]_vars

\* C19 happens: the store was filled by one reload, and the reload after a
\* Toggle failed and left it, so that the store is behind the service
C19_Witness ==
    /\ Alerted(<<"Error loading tasks">>)
    /\ Len(tasks) = 1 /\ ~tasks[1].completed
    /\ Len(server) = 1 /\ server[1].completed
    /\ DOMAIN ops = {}

\* the calls this step has started
NewCalls == DOMAIN ops' \ DOMAIN ops

=============================================================================
